---- MODULE Spec2Model ----
(***************************************************************************)
(* Model of visualize_log.py, the UDP reliable-messaging log visualizer.   *)
(*                                                                         *)
(* Strings the program takes apart (file names, test names) are sequences  *)
(* of one-character strings, so that str.replace, glob suffix matching and *)
(* string comparison are computed character by character.                  *)
(***************************************************************************)
EXTENDS Integers, Sequences, FiniteSets, TLC

(***************************************************************************)
(* Bounds of the model.                                                    *)
(***************************************************************************)
MaxFiles == 3
MaxRuns == 2

(***************************************************************************)
(* String literals of the program.                                         *)
(***************************************************************************)
ClientSuffix == <<"C","l","i","e","n","t",".","l","o","g">>
ServerSuffix == <<"S","e","r","v","e","r",".","l","o","g">>
ProxySuffix == <<"P","r","o","x","y",".","l","o","g">>
DefaultName == <<"d","e","f","a","u","l","t">>
UnknownName == <<"U","n","k","n","o","w","n">>
\* Python's None (and any falsy file name): analyze_test_set only tests
\* truthiness, and no file name found by glob is empty.
None == << >>

preferred_order ==
    << <<"N","o","P","r","o","x","y">>,
       <<"P","e","r","f","e","c","t","N","e","t","w","o","r","k">>,
       <<"5","D","r","o","p">>,
       <<"1","0","D","r","o","p">>,
       <<"5","0","D","e","l","a","y">>,
       <<"1","0","0","D","e","l","a","y">>,
       <<"5","0","D","r","o","p","5","0","D","e","l","a","y">> >>

\* Code points of the characters that occur in the modelled file names
\* (Python compares str values code point by code point).
Ord ==
    "." :> 46 @@ "0" :> 48 @@ "1" :> 49 @@ "5" :> 53 @@ "A" :> 65 @@
    "C" :> 67 @@ "D" :> 68 @@ "N" :> 78 @@ "P" :> 80 @@ "S" :> 83 @@
    "U" :> 85 @@ "a" :> 97 @@ "b" :> 98 @@ "c" :> 99 @@ "d" :> 100 @@
    "e" :> 101 @@ "f" :> 102 @@ "g" :> 103 @@ "i" :> 105 @@ "k" :> 107 @@
    "l" :> 108 @@ "n" :> 110 @@ "o" :> 111 @@ "p" :> 112 @@ "r" :> 114 @@
    "t" :> 116 @@ "u" :> 117 @@ "v" :> 118 @@ "w" :> 119 @@ "x" :> 120 @@
    "y" :> 121

(***************************************************************************)
(* The working directory: file names <prefix><role suffix>.  The prefixes  *)
(* cover the empty prefix, preferred and unlisted test names, and a prefix *)
(* that itself contains a role suffix.                                     *)
(***************************************************************************)
Prefixes ==
    { << >>,
      <<"N","o","P","r","o","x","y">>,
      <<"5","D","r","o","p">>,
      <<"A">>,
      <<"b">>,
      <<"S","e","r","v","e","r",".","l","o","g","b">> }

RoleSuffixes == {ClientSuffix, ServerSuffix, ProxySuffix}

CandidateFiles == {p \o s : p \in Prefixes, s \in RoleSuffixes}

Directories == {d \in SUBSET CandidateFiles : Cardinality(d) <= MaxFiles}

VARIABLES
    dir,                \* the files of the working directory
    pc,                 \* position of main
    run,                \* number of the current run of main over dir
    log_files,          \* result of find_log_files
    listing,            \* the "Found log files" lines
    test_sets,          \* main's grouping: test name -> slots
    sorted_test_names,  \* main's presentation order
    output,             \* one record per analyze_test_set call, in order
    prev_output         \* listing and output of the previous run

mainVars == <<dir, pc, run, log_files, listing, test_sets,
              sorted_test_names, output, prev_output>>

VARIABLES
    parse_pc,           \* position of parse_log_file
    file_lines,         \* the lines of the file read so far
    events              \* parse_log_file's list of events

parseVars == <<parse_pc, file_lines, events>>

VARIABLES
    client_pc,          \* position of analyze_client_log
    client_events,      \* the messages of the events iterated so far
    client_stats        \* analyze_client_log's stats

clientVars == <<client_pc, client_events, client_stats>>

VARIABLES
    proxy_pc,           \* position of analyze_proxy_log
    proxy_events,       \* the messages of the events iterated so far
    proxy_stats         \* analyze_proxy_log's stats

proxyVars == <<proxy_pc, proxy_events, proxy_stats>>

VARIABLES
    report_pc,          \* position of analyze_test_set after its banner
    report_events,      \* the parsed events of the client, server, proxy slot
    printed,            \* labels of the derived metrics printed so far
    denominators        \* denominators of the divisions evaluated so far

reportVars == <<report_pc, report_events, printed, denominators>>

VARIABLES
    bar_pc,             \* position of print_bar_chart
    value,              \* its argument value
    max_value,          \* its argument max_value
    bar_width,          \* the number of glyphs drawn
    divided             \* whether value / max_value was evaluated

barVars == <<bar_pc, value, max_value, bar_width, divided>>

vars == <<mainVars, parseVars, clientVars, proxyVars, reportVars, barVars>>

notMain == <<parseVars, clientVars, proxyVars, reportVars, barVars>>
notParse == <<mainVars, clientVars, proxyVars, reportVars, barVars>>
notClient == <<mainVars, parseVars, proxyVars, reportVars, barVars>>
notProxy == <<mainVars, parseVars, clientVars, reportVars, barVars>>
notReport == <<mainVars, parseVars, clientVars, proxyVars, barVars>>
notBar == <<mainVars, parseVars, clientVars, proxyVars, reportVars>>

(***************************************************************************)
(* Each function of the program is checked under a specification of its    *)
(* own; the variables of the other functions then rest at these values.    *)
(***************************************************************************)
MainIdle ==
    /\ dir = {}
    /\ pc = "idle"
    /\ run = 0
    /\ log_files = << >>
    /\ listing = << >>
    /\ test_sets = << >>
    /\ sorted_test_names = << >>
    /\ output = << >>
    /\ prev_output = << >>

ParseIdle ==
    /\ parse_pc = "idle"
    /\ file_lines = << >>
    /\ events = << >>

ClientIdle ==
    /\ client_pc = "idle"
    /\ client_events = << >>
    /\ client_stats = << >>

ProxyIdle ==
    /\ proxy_pc = "idle"
    /\ proxy_events = << >>
    /\ proxy_stats = << >>

ReportIdle ==
    /\ report_pc = "idle"
    /\ report_events = << >>
    /\ printed = {}
    /\ denominators = {}

BarIdle ==
    /\ bar_pc = "idle"
    /\ value = 0
    /\ max_value = 0
    /\ bar_width = 0
    /\ divided = FALSE

(***************************************************************************)
(* String helpers.                                                         *)
(***************************************************************************)
\* fnmatch of the pattern '*' + suffix
EndsWith(s, suffix) ==
    /\ Len(s) >= Len(suffix)
    /\ SubSeq(s, Len(s) - Len(suffix) + 1, Len(s)) = suffix

\* str.replace(old, ''): every non-overlapping occurrence, leftmost first
RECURSIVE Replace(_, _)
Replace(s, old) ==
    IF Len(s) < Len(old) THEN s
    ELSE IF SubSeq(s, 1, Len(old)) = old
         THEN Replace(SubSeq(s, Len(old) + 1, Len(s)), old)
         ELSE <<Head(s)>> \o Replace(Tail(s), old)

\* str < str
RECURSIVE StrLess(_, _)
StrLess(a, b) ==
    IF b = << >> THEN FALSE
    ELSE IF a = << >> THEN TRUE
    ELSE IF Ord[Head(a)] # Ord[Head(b)] THEN Ord[Head(a)] < Ord[Head(b)]
    ELSE StrLess(Tail(a), Tail(b))

\* every order in which a directory scan can enumerate the set S
Enumerations(S) ==
    {s \in [1..Cardinality(S) -> S] : \A x \in S : \E i \in DOMAIN s : s[i] = x}

\* sorted(list of str)
RECURSIVE SortedStrings(_)
SortedStrings(S) ==
    IF S = {} THEN << >>
    ELSE LET m == CHOOSE x \in S : \A y \in S \ {x} : StrLess(x, y)
         IN  <<m>> \o SortedStrings(S \ {m})

Range(s) == {s[i] : i \in DOMAIN s}

(***************************************************************************)
(* extract_test_name                                                       *)
(***************************************************************************)
extract_test_name(filename) ==
    LET name == Replace(Replace(Replace(filename, ClientSuffix),
                                ServerSuffix), ProxySuffix)
    IN  IF name # << >> THEN name ELSE DefaultName

(***************************************************************************)
(* main: grouping and ordering                                             *)
(***************************************************************************)
EmptySlots == [client |-> None, server |-> None, proxy |-> None]

\* one "for x_log in log_files[role]" loop of main over the defaultdict
RECURSIVE GroupLogs(_, _, _)
GroupLogs(ts, logs, role) ==
    IF logs = << >> THEN ts
    ELSE LET test_name == extract_test_name(Head(logs))
             slots == IF test_name \in DOMAIN ts THEN ts[test_name]
                      ELSE EmptySlots
             filled == [slots EXCEPT ![role] = Head(logs)]
         IN  GroupLogs([k \in DOMAIN ts \cup {test_name} |->
                            IF k = test_name THEN filled ELSE ts[k]],
                       Tail(logs), role)

IndexOf(seq, x) == CHOOSE i \in DOMAIN seq : seq[i] = x

\* sort_key without the preferred list: every name ranks by spelling alone
sort_key_by_name(test_name) ==
    [rank |-> 1, index |-> 0, name |-> test_name]

\* sort_key, as the pair Python compares
sort_key(test_name) ==
    IF test_name \in Range(preferred_order)
    THEN [rank |-> 0, index |-> IndexOf(preferred_order, test_name),
          name |-> << >>]
    ELSE [rank |-> 1, index |-> 0, name |-> test_name]

KeyLess(k1, k2) ==
    IF k1.rank # k2.rank THEN k1.rank < k2.rank
    ELSE IF k1.rank = 0 THEN k1.index < k2.index
    ELSE StrLess(k1.name, k2.name)

\* sorted(test_sets.keys(), key=sort_key)
RECURSIVE SortedByKey(_)
SortedByKey(S) ==
    IF S = {} THEN << >>
    ELSE LET m == CHOOSE x \in S :
                     \A y \in S \ {x} : KeyLess(sort_key(x), sort_key(y))
         IN  <<m>> \o SortedByKey(S \ {m})

\* the banner analyze_test_set prints for its three arguments
BannerName(client_file, server_file, proxy_file) ==
    IF client_file # None THEN extract_test_name(client_file)
    ELSE IF server_file # None THEN extract_test_name(server_file)
    ELSE UnknownName

MainInit ==
    /\ dir \in Directories
    /\ pc = "find"
    /\ run = 1
    /\ log_files = [client |-> << >>, server |-> << >>, proxy |-> << >>]
    /\ listing = << >>
    /\ test_sets = << >>
    /\ sorted_test_names = << >>
    /\ output = << >>
    /\ prev_output = << >>

\* find_log_files: three globs, each in some enumeration order
find_log_files ==
    /\ pc = "find"
    /\ \E c \in Enumerations({f \in dir : EndsWith(f, ClientSuffix)}),
          s \in Enumerations({f \in dir : EndsWith(f, ServerSuffix)}),
          p \in Enumerations({f \in dir : EndsWith(f, ProxySuffix)}) :
            log_files' = [client |-> c, server |-> s, proxy |-> p]
    /\ pc' = "report"
    /\ UNCHANGED <<dir, run, listing, test_sets, sorted_test_names,
                   output, prev_output>>
    /\ UNCHANGED notMain

\* main, no file found: the usage hint, then return
MainNoFiles ==
    /\ pc = "report"
    /\ log_files.client = << >>
    /\ log_files.server = << >>
    /\ log_files.proxy = << >>
    /\ listing' = <<"No log files found">>
    /\ pc' = "done"
    /\ UNCHANGED <<dir, run, log_files, test_sets, sorted_test_names,
                   output, prev_output>>
    /\ UNCHANGED notMain

\* main, files found: list them, group them by test name, order the names
MainGroup ==
    /\ pc = "report"
    /\ ~ (log_files.client = << >> /\ log_files.server = << >>
            /\ log_files.proxy = << >>)
    /\ listing' = <<SortedStrings(Range(log_files.client)),
                    SortedStrings(Range(log_files.server)),
                    SortedStrings(Range(log_files.proxy))>>
    /\ LET ts == GroupLogs(GroupLogs(GroupLogs(<< >>, log_files.client,
                                               "client"),
                                     log_files.server, "server"),
                           log_files.proxy, "proxy")
       IN  /\ test_sets' = ts
           /\ sorted_test_names' = SortedByKey(DOMAIN ts)
    /\ pc' = "analyze"
    /\ UNCHANGED <<dir, run, log_files, output, prev_output>>
    /\ UNCHANGED notMain

\* one iteration of "for test_name in sorted_test_names": analyze_test_set
\* prints its banner for the slots of test_name
analyze_test_set ==
    /\ pc = "analyze"
    /\ Len(output) < Len(sorted_test_names)
    /\ LET test_name == sorted_test_names[Len(output) + 1]
           test_set == test_sets[test_name]
       IN  output' = Append(output,
                [key |-> test_name,
                 banner |-> BannerName(test_set.client, test_set.server,
                                       test_set.proxy),
                 client |-> test_set.client,
                 server |-> test_set.server,
                 proxy |-> test_set.proxy])
    /\ UNCHANGED <<dir, pc, run, log_files, listing, test_sets,
                   sorted_test_names, prev_output>>
    /\ UNCHANGED notMain

\* main returns after the last test set
MainReturn ==
    /\ pc = "analyze"
    /\ Len(output) = Len(sorted_test_names)
    /\ pc' = "done"
    /\ UNCHANGED <<dir, run, log_files, listing, test_sets,
                   sorted_test_names, output, prev_output>>
    /\ UNCHANGED notMain

\* the program is run again over the unchanged directory
Rerun ==
    /\ pc = "done"
    /\ run < MaxRuns
    /\ run' = run + 1
    /\ prev_output' = <<listing, output>>
    /\ pc' = "find"
    /\ log_files' = [client |-> << >>, server |-> << >>, proxy |-> << >>]
    /\ listing' = << >>
    /\ test_sets' = << >>
    /\ sorted_test_names' = << >>
    /\ output' = << >>
    /\ UNCHANGED dir
    /\ UNCHANGED notMain

MainNext ==
    \/ find_log_files
    \/ MainNoFiles
    \/ MainGroup
    \/ analyze_test_set
    \/ MainReturn
    \/ Rerun

MainStart == MainInit /\ ParseIdle /\ ClientIdle /\ ProxyIdle /\ ReportIdle /\ BarIdle

SpecMain == MainStart /\ [][MainNext]_vars

(***************************************************************************)
(* Claims about main, extract_test_name and the banner.                    *)
(***************************************************************************)
Keys(out) == {out[i].key : i \in DOMAIN out}

\* C1: the banner analyze_test_set prints for a test set is the identifier
\* under which main grouped that set's files, whichever slots are present
\* (a set with only a proxy file included).
C1_BannerShowsGroupKey ==
    \A i \in DOMAIN output : output[i].banner = output[i].key

\* the file name without the role suffix it ends with
StripRoleSuffix(f) ==
    LET suffix == CHOOSE x \in RoleSuffixes : EndsWith(f, x)
        rest == SubSeq(f, 1, Len(f) - Len(suffix))
    IN  IF rest # << >> THEN rest ELSE DefaultName

\* C2: extract_test_name removes only the role suffix the file name ends
\* with ('default' when nothing remains), so every file <P>Client.log,
\* <P>Server.log, <P>Proxy.log sits in the test set whose identifier is <P>,
\* also when <P> itself contains one of the three suffix strings.
C2_IdentifierIsPrefix ==
    \A name \in DOMAIN test_sets :
        \A role \in {"client", "server", "proxy"} :
            test_sets[name][role] # None =>
                name = StripRoleSuffix(test_sets[name][role])

\* C4: a second run of main over the unchanged directory prints what the
\* first run printed, whatever order glob enumerated the files in.
C4_RerunSameOutput ==
    (run = 2 /\ pc = "done") => <<listing, output>> = prev_output

IsPreferred(name) == \E i \in DOMAIN preferred_order : preferred_order[i] = name

\* C7: the test sets are analysed preferred identifiers first, in the order
\* of the preferred list, then the other identifiers in alphabetical (code
\* point) order; when main returns every discovered test set has been
\* analysed exactly once.
C7_AnalysisOrder ==
    /\ \A i, j \in DOMAIN output :
          i < j =>
            LET a == output[i].key
                b == output[j].key
            IN  /\ a # b
                /\ IsPreferred(b) =>
                      /\ IsPreferred(a)
                      /\ IndexOf(preferred_order, a) < IndexOf(preferred_order, b)
                /\ (~ IsPreferred(a) /\ ~ IsPreferred(b)) => StrLess(a, b)
    /\ (pc = "done" /\ dir # {}) =>
          Keys(output) = {extract_test_name(f) : f \in dir}

\* NoProxy, 5Drop and the unlisted A were analysed, in that order, although
\* alphabetically 5Drop < A < NoProxy.
C7_Witness ==
    /\ pc = "done"
    /\ Len(output) = 3
    /\ output[1].key = preferred_order[1]
    /\ output[2].key = preferred_order[3]
    /\ output[3].key = <<"A">>

(***************************************************************************)
(* parse_log_file.  A line is a sequence of tokens: single characters and, *)
(* as one token each, a text that strptime accepts and one it rejects.     *)
(***************************************************************************)
MaxLines == 2

SP == " "
NL == "\n"
LB == "["
RB == "]"
X == "x"
GoodStamp == "2024-01-01 00:00:00"
BadStamp == "2024-13-45 00:00:00"

LineLeads == { << >>, <<SP>>, <<X>> }
LineStamps == { <<LB, GoodStamp, RB>>, <<LB, BadStamp, RB>>,
                <<LB, GoodStamp, SP, RB>>, <<GoodStamp>> }
LineTails == { <<SP, X>>, <<X>>, <<SP>>, <<SP, X, SP>>, <<SP, SP, X>> }

\* the lines a log file is drawn from, each with its line terminator
Lines == {a \o b \o c \o <<NL>> : a \in LineLeads, b \in LineStamps,
                                   c \in LineTails}

IsSpace(t) == t \in {SP, NL}

RECURSIVE LStrip(_)
LStrip(s) == IF s # << >> /\ IsSpace(Head(s)) THEN LStrip(Tail(s)) ELSE s

RECURSIVE RStrip(_)
RStrip(s) ==
    IF s # << >> /\ IsSpace(s[Len(s)]) THEN RStrip(SubSeq(s, 1, Len(s) - 1))
    ELSE s

\* str.strip()
Strip(s) == LStrip(RStrip(s))

\* the character class [\d\-: ]
InStampClass(t) == t \in {GoodStamp, BadStamp, SP}

\* re.match(r'\[([\d\-: ]+)\] (.+)', s): the groups of the match, if any
ReMatch(s) ==
    LET closes == {k \in 3..Len(s) :
                      /\ s[1] = LB
                      /\ s[k] = RB
                      /\ \A j \in 2..(k - 1) : InStampClass(s[j])
                      /\ Len(s) >= k + 2
                      /\ s[k + 1] = SP}
    IN  IF closes = {} THEN << >>
        ELSE LET k == CHOOSE c \in closes : TRUE
             IN  << [timestamp_str |-> SubSeq(s, 2, k - 1),
                     message |-> SubSeq(s, k + 2, Len(s))] >>

\* datetime.strptime(timestamp_str, '%Y-%m-%d %H:%M:%S') does not raise
StrptimeOK(timestamp_str) == timestamp_str = <<GoodStamp>>

\* the loop body without the strptime call: every regex match is an event
ParseLineNoStrptime(line) ==
    LET m == ReMatch(Strip(line))
    IN  IF m = << >> THEN << >>
        ELSE << [timestamp |-> m[1].timestamp_str, message |-> m[1].message] >>

\* the body of "for line in f": the events the line appends
ParseLine(line) ==
    LET m == ReMatch(Strip(line))
    IN  IF m = << >> THEN << >>
        ELSE IF StrptimeOK(m[1].timestamp_str)
             THEN << [timestamp |-> m[1].timestamp_str,
                      message |-> m[1].message] >>
             ELSE << >>

ParseInit ==
    /\ parse_pc = "open"
    /\ file_lines = << >>
    /\ events = << >>

\* open(filename) succeeds
ParseOpen ==
    /\ parse_pc = "open"
    /\ parse_pc' = "read"
    /\ UNCHANGED <<file_lines, events>>
    /\ UNCHANGED notParse

\* open(filename) raises FileNotFoundError: warning, return []
ParseFileNotFound ==
    /\ parse_pc = "open"
    /\ parse_pc' = "done"
    /\ events' = << >>
    /\ UNCHANGED file_lines
    /\ UNCHANGED notParse

\* one iteration of "for line in f"
ParseNextLine ==
    /\ parse_pc = "read"
    /\ Len(file_lines) < MaxLines
    /\ \E line \in Lines :
          /\ file_lines' = Append(file_lines, line)
          /\ events' = events \o ParseLine(line)
    /\ UNCHANGED parse_pc
    /\ UNCHANGED notParse

\* end of file: return events
ParseReturn ==
    /\ parse_pc = "read"
    /\ parse_pc' = "done"
    /\ UNCHANGED <<file_lines, events>>
    /\ UNCHANGED notParse

ParseNext ==
    \/ ParseOpen
    \/ ParseFileNotFound
    \/ ParseNextLine
    \/ ParseReturn

ParseStart == ParseInit /\ MainIdle /\ ClientIdle /\ ProxyIdle /\ ReportIdle /\ BarIdle

SpecParse == ParseStart /\ [][ParseNext]_vars

\* a line is well formed when what is left of it after removing the given
\* whitespace is "[", a valid timestamp, "]", one space and a message
WellFormed(stripped) ==
    /\ Len(stripped) >= 5
    /\ SubSeq(stripped, 1, 4) = <<LB, GoodStamp, RB, SP>>

RECURSIVE EventsOfTrailingStripped(_)
EventsOfTrailingStripped(lines) ==
    IF lines = << >> THEN << >>
    ELSE LET s == RStrip(Head(lines))
         IN  (IF WellFormed(s)
              THEN << [timestamp |-> <<GoodStamp>>,
                       message |-> SubSeq(s, 5, Len(s))] >>
              ELSE << >>) \o EventsOfTrailingStripped(Tail(lines))

RECURSIVE EventsOfStripped(_)
EventsOfStripped(lines) ==
    IF lines = << >> THEN << >>
    ELSE LET s == LStrip(RStrip(Head(lines)))
         IN  (IF WellFormed(s)
              THEN << [timestamp |-> <<GoodStamp>>,
                       message |-> SubSeq(s, 5, Len(s))] >>
              ELSE << >>) \o EventsOfStripped(Tail(lines))

\* C5 as stated: the events are, in line order, one per line that after
\* stripping trailing whitespace only is a bracketed valid timestamp, one
\* space and a message; every other line contributes nothing and does not
\* stop the lines after it.
C5_OneEventPerWellFormedLine_TrailingStrip ==
    events = EventsOfTrailingStripped(file_lines)

\* C5 amended: the same with leading whitespace stripped as well as
\* trailing whitespace.
C5_OneEventPerWellFormedLine ==
    events = EventsOfStripped(file_lines)

\* an indented well-formed line gave an event, and the line with a bad
\* timestamp before it did not stop it
C5_Witness ==
    /\ parse_pc = "done"
    /\ Len(file_lines) = 2
    /\ file_lines[1] = <<LB, BadStamp, RB, SP, X, NL>>
    /\ file_lines[2] = <<SP, LB, GoodStamp, RB, SP, X, NL>>
    /\ events = << [timestamp |-> <<GoodStamp>>, message |-> <<X>>] >>

(***************************************************************************)
(* Event messages.  A message is a sequence of tokens; a token is a piece  *)
(* of text that carries the digits num when num >= 0: Number("seq=", 1) is  *)
(* the text seq=1, Number("ms", 30) is the text " 30ms".                   *)
(***************************************************************************)
Word(text) == [text |-> text, num |-> -1]
Number(text, n) == [text |-> text, num |-> n]

\* the marker strings that occur inside the text of a token
MarkersIn(text) ==
    IF text = "ACK_RECV:" THEN {"ACK_RECV:", "RECV:"} ELSE {text}

\* marker in msg
Contains(msg, marker) ==
    \E i \in DOMAIN msg : marker \in MarkersIn(msg[i].text)

\* re.search(field + r'(\d+)', msg): the set holding int(group(1)) of the
\* leftmost match, empty when there is no match
SearchNumber(msg, field) ==
    LET hits == {i \in DOMAIN msg : msg[i].text = field /\ msg[i].num >= 0}
    IN  IF hits = {} THEN {}
        ELSE {msg[CHOOSE i \in hits : \A j \in hits : i <= j].num}

(***************************************************************************)
(* analyze_client_log                                                      *)
(***************************************************************************)
MaxClientEvents == 3

ClientMarkerParts ==
    { << >>,
      <<Word("SEND:")>>,
      <<Word("ACK_RECV:")>>,
      <<Word("FAILED:")>>,
      <<Word("TIMEOUT:")>>,
      <<Word("TIMEOUT:"), Word("SEND:")>>,
      <<Word("SEND:"), Word("ACK_RECV:"), Word("FAILED:"), Word("TIMEOUT:")>> }

ClientDetailParts ==
    { << >>,
      <<Number("seq=", 1)>>,
      <<Number("seq=", 2), Number("attempt=", 1)>>,
      <<Word("attempt="), Number("attempt=", 2), Number("seq=", 1)>> }

ClientMessages == {m \o d : m \in ClientMarkerParts, d \in ClientDetailParts}

ClientStatsInit ==
    [total_sent |-> 0, total_acked |-> 0, total_failed |-> 0,
     total_timeouts |-> 0, retransmissions |-> << >>, sequences |-> {}]

\* defaultdict(int): d[k] += 1
Increment(d, k) ==
    [x \in DOMAIN d \cup {k} |->
        IF x = k THEN (IF k \in DOMAIN d THEN d[k] + 1 ELSE 1) ELSE d[x]]

\* the four checks chained with elif: the first marker found wins
ClientStepElif(stats, msg) ==
    IF Contains(msg, "SEND:")
    THEN [stats EXCEPT !.total_sent = @ + 1,
                       !.sequences = @ \cup SearchNumber(msg, "seq=")]
    ELSE IF Contains(msg, "ACK_RECV:")
    THEN [stats EXCEPT !.total_acked = @ + 1]
    ELSE IF Contains(msg, "FAILED:")
    THEN [stats EXCEPT !.total_failed = @ + 1]
    ELSE IF Contains(msg, "TIMEOUT:")
    THEN LET a == SearchNumber(msg, "attempt=")
         IN  [stats EXCEPT !.total_timeouts = @ + 1,
                           !.retransmissions =
                               IF a = {} THEN @
                               ELSE Increment(@, CHOOSE n \in a : TRUE)]
    ELSE stats

\* the sequence number recorded for every message, sent or not
ClientStepAnySeq(stats, msg) ==
    LET s1 == [stats EXCEPT !.sequences = @ \cup SearchNumber(msg, "seq=")]
        s2 == IF Contains(msg, "SEND:")
              THEN [s1 EXCEPT !.total_sent = @ + 1] ELSE s1
        s3 == IF Contains(msg, "ACK_RECV:")
              THEN [s2 EXCEPT !.total_acked = @ + 1] ELSE s2
        s4 == IF Contains(msg, "FAILED:")
              THEN [s3 EXCEPT !.total_failed = @ + 1] ELSE s3
    IN  IF Contains(msg, "TIMEOUT:")
        THEN LET a == SearchNumber(msg, "attempt=")
             IN  [s4 EXCEPT !.total_timeouts = @ + 1,
                            !.retransmissions =
                                IF a = {} THEN @
                                ELSE Increment(@, CHOOSE n \in a : TRUE)]
        ELSE s4

\* the body of "for event in events" of analyze_client_log
ClientStep(stats, msg) ==
    LET s1 == IF Contains(msg, "SEND:")
              THEN [stats EXCEPT !.total_sent = @ + 1,
                                 !.sequences = @ \cup SearchNumber(msg, "seq=")]
              ELSE stats
        s2 == IF Contains(msg, "ACK_RECV:")
              THEN [s1 EXCEPT !.total_acked = @ + 1] ELSE s1
        s3 == IF Contains(msg, "FAILED:")
              THEN [s2 EXCEPT !.total_failed = @ + 1] ELSE s2
    IN  IF Contains(msg, "TIMEOUT:")
        THEN LET a == SearchNumber(msg, "attempt=")
             IN  [s3 EXCEPT !.total_timeouts = @ + 1,
                            !.retransmissions =
                                IF a = {} THEN @
                                ELSE Increment(@, CHOOSE n \in a : TRUE)]
        ELSE s3

\* analyze_client_log(events)
RECURSIVE analyze_client_log(_)
analyze_client_log(evs) ==
    IF evs = << >> THEN ClientStatsInit
    ELSE ClientStep(analyze_client_log(SubSeq(evs, 1, Len(evs) - 1)),
                    evs[Len(evs)])

ClientInit ==
    /\ client_pc = "loop"
    /\ client_events = << >>
    /\ client_stats = ClientStatsInit

\* one iteration of the loop, over the next event of the list
ClientNextEvent ==
    /\ client_pc = "loop"
    /\ Len(client_events) < MaxClientEvents
    /\ \E msg \in ClientMessages :
          /\ client_events' = Append(client_events, msg)
          /\ client_stats' = ClientStep(client_stats, msg)
    /\ UNCHANGED client_pc
    /\ UNCHANGED notClient

\* the list is exhausted: return stats
ClientReturn ==
    /\ client_pc = "loop"
    /\ client_pc' = "done"
    /\ UNCHANGED <<client_events, client_stats>>
    /\ UNCHANGED notClient

ClientNext ==
    \/ ClientNextEvent
    \/ ClientReturn

ClientStart == ClientInit /\ MainIdle /\ ParseIdle /\ ProxyIdle /\ ReportIdle /\ BarIdle

SpecClient == ClientStart /\ [][ClientNext]_vars

\* the number of messages of evs that contain marker
CountWith(evs, marker) ==
    Cardinality({i \in DOMAIN evs : Contains(evs[i], marker)})

\* the attempt numbers met so far
AttemptsSeen(evs) ==
    UNION {SearchNumber(evs[i], "attempt=") : i \in DOMAIN evs}

\* C8: the four counters are the numbers of events whose message contains
\* SEND:, ACK_RECV:, FAILED: and TIMEOUT:, each counted whatever other
\* markers the message has, and retransmissions[n] is the number of TIMEOUT:
\* events whose attempt number (their first attempt=<digits>) is n.
C8_IndependentCounters ==
    /\ client_stats.total_sent = CountWith(client_events, "SEND:")
    /\ client_stats.total_acked = CountWith(client_events, "ACK_RECV:")
    /\ client_stats.total_failed = CountWith(client_events, "FAILED:")
    /\ client_stats.total_timeouts = CountWith(client_events, "TIMEOUT:")
    /\ \A n \in AttemptsSeen(client_events) \cup DOMAIN client_stats.retransmissions :
          LET hits == {i \in DOMAIN client_events :
                          /\ Contains(client_events[i], "TIMEOUT:")
                          /\ SearchNumber(client_events[i], "attempt=") = {n}}
          IN  IF hits = {} THEN n \notin DOMAIN client_stats.retransmissions
              ELSE /\ n \in DOMAIN client_stats.retransmissions
                   /\ client_stats.retransmissions[n] = Cardinality(hits)

\* one message with all four markers was counted by all four counters, and
\* two timeouts of attempt 1 and one of attempt 2 were tallied
C8_Witness ==
    /\ Len(client_events) = 3
    /\ \E i \in DOMAIN client_events :
          \A m \in {"SEND:", "ACK_RECV:", "FAILED:", "TIMEOUT:"} :
              Contains(client_events[i], m)
    /\ client_stats.total_sent >= 1
    /\ client_stats.total_failed >= 1
    /\ DOMAIN client_stats.retransmissions = {1, 2}
    /\ client_stats.retransmissions[1] = 2
    /\ client_stats.retransmissions[2] = 1

\* the sequence numbers of the SEND: messages of evs
SentSequences(evs) ==
    {n \in 0..2 : \E i \in DOMAIN evs :
        /\ Contains(evs[i], "SEND:")
        /\ \E j \in DOMAIN evs[i] :
              evs[i][j].text = "seq=" /\ evs[i][j].num = n}

C10_Invariant ==
    /\ client_stats.total_sent >= Cardinality(client_stats.sequences)
    /\ client_stats.sequences \subseteq SentSequences(client_events)

\* C10: after every event total_sent >= |sequences|; sequences holds only
\* sequence numbers of SEND: messages and never loses one.
C10_SentCoversSequences ==
    /\ [](client_pc # "idle" => C10_Invariant)
    /\ [][client_stats.sequences \subseteq client_stats'.sequences]_vars

\* a retransmission: two transmissions of one sequence number
C10_Witness ==
    /\ client_stats.total_sent = 2
    /\ client_stats.sequences = {1}
    /\ Len(client_events) = 2

(***************************************************************************)
(* analyze_proxy_log                                                       *)
(***************************************************************************)
MaxProxyEvents == 2

ProxyReceivedParts ==
    { << >>,
      <<Word("C->S: Received")>>,
      <<Word("S->C: Received")>>,
      <<Word("S->C: Received"), Word("C->S: Received")>> }

ProxyDroppedParts ==
    { << >>,
      <<Word("S->C: DROPPED")>>,
      <<Word("S->C: DROPPED"), Word("C->S: DROPPED")>> }

ProxyDelayedParts ==
    { << >>,
      <<Word("C->S: DELAYED"), Number("ms", 30)>>,
      <<Word("S->C: DELAYED")>>,
      <<Word("S->C: DELAYED"), Word("C->S: DELAYED"), Number("ms", 50)>> }

ProxyMessages ==
    {r \o d \o l : r \in ProxyReceivedParts, d \in ProxyDroppedParts,
                   l \in ProxyDelayedParts}

ProxyStatsInit ==
    [client_to_server |-> 0, server_to_client |-> 0,
     dropped_c2s |-> 0, dropped_s2c |-> 0,
     delayed_c2s |-> 0, delayed_s2c |-> 0,
     delay_times_c2s |-> << >>, delay_times_s2c |-> << >>]

\* re.search(r'DELAYED (\d+)ms', msg): the one-element list holding
\* int(group(1)) of the leftmost match, empty when there is no match
SearchDelay(msg) ==
    LET hits == {i \in DOMAIN msg :
                    /\ msg[i].text \in {"C->S: DELAYED", "S->C: DELAYED"}
                    /\ i + 1 \in DOMAIN msg
                    /\ msg[i + 1].text = "ms"
                    /\ msg[i + 1].num >= 0}
    IN  IF hits = {} THEN << >>
        ELSE << msg[(CHOOSE i \in hits : \A j \in hits : i <= j) + 1].num >>

\* the direction checks written with if instead of elif
ProxyStepBothDirections(stats, msg) ==
    LET s1 == IF Contains(msg, "C->S: Received")
              THEN [stats EXCEPT !.client_to_server = @ + 1] ELSE stats
        s2 == IF Contains(msg, "S->C: Received")
              THEN [s1 EXCEPT !.server_to_client = @ + 1] ELSE s1
        s3 == IF Contains(msg, "C->S: DROPPED")
              THEN [s2 EXCEPT !.dropped_c2s = @ + 1] ELSE s2
        s4 == IF Contains(msg, "S->C: DROPPED")
              THEN [s3 EXCEPT !.dropped_s2c = @ + 1] ELSE s3
        s5 == IF Contains(msg, "C->S: DELAYED")
              THEN [s4 EXCEPT !.delayed_c2s = @ + 1,
                              !.delay_times_c2s = @ \o SearchDelay(msg)]
              ELSE s4
    IN  IF Contains(msg, "S->C: DELAYED")
        THEN [s5 EXCEPT !.delayed_s2c = @ + 1,
                        !.delay_times_s2c = @ \o SearchDelay(msg)]
        ELSE s5

\* the body of "for event in events" of analyze_proxy_log
ProxyStep(stats, msg) ==
    LET s1 == IF Contains(msg, "C->S: Received")
              THEN [stats EXCEPT !.client_to_server = @ + 1]
              ELSE IF Contains(msg, "S->C: Received")
              THEN [stats EXCEPT !.server_to_client = @ + 1]
              ELSE stats
        s2 == IF Contains(msg, "C->S: DROPPED")
              THEN [s1 EXCEPT !.dropped_c2s = @ + 1]
              ELSE IF Contains(msg, "S->C: DROPPED")
              THEN [s1 EXCEPT !.dropped_s2c = @ + 1]
              ELSE s1
    IN  IF Contains(msg, "C->S: DELAYED")
        THEN [s2 EXCEPT !.delayed_c2s = @ + 1,
                        !.delay_times_c2s = @ \o SearchDelay(msg)]
        ELSE IF Contains(msg, "S->C: DELAYED")
        THEN [s2 EXCEPT !.delayed_s2c = @ + 1,
                        !.delay_times_s2c = @ \o SearchDelay(msg)]
        ELSE s2

\* analyze_proxy_log(events)
RECURSIVE analyze_proxy_log(_)
analyze_proxy_log(evs) ==
    IF evs = << >> THEN ProxyStatsInit
    ELSE ProxyStep(analyze_proxy_log(SubSeq(evs, 1, Len(evs) - 1)),
                   evs[Len(evs)])

ProxyInit ==
    /\ proxy_pc = "loop"
    /\ proxy_events = << >>
    /\ proxy_stats = ProxyStatsInit

\* one iteration of the loop, over the next event of the list
ProxyNextEvent ==
    /\ proxy_pc = "loop"
    /\ Len(proxy_events) < MaxProxyEvents
    /\ \E msg \in ProxyMessages :
          /\ proxy_events' = Append(proxy_events, msg)
          /\ proxy_stats' = ProxyStep(proxy_stats, msg)
    /\ UNCHANGED proxy_pc
    /\ UNCHANGED notProxy

\* the list is exhausted: return stats
ProxyReturn ==
    /\ proxy_pc = "loop"
    /\ proxy_pc' = "done"
    /\ UNCHANGED <<proxy_events, proxy_stats>>
    /\ UNCHANGED notProxy

ProxyNext ==
    \/ ProxyNextEvent
    \/ ProxyReturn

ProxyStart == ProxyInit /\ MainIdle /\ ParseIdle /\ ClientIdle /\ ReportIdle /\ BarIdle

SpecProxy == ProxyStart /\ [][ProxyNext]_vars

\* what one event adds to the two counters of a kind, given whether its
\* message has the client-to-server and the server-to-client marker
OneDirection(hasC2S, hasS2C, dC2S, dS2C) ==
    /\ dC2S = (IF hasC2S THEN 1 ELSE 0)
    /\ dS2C = (IF ~ hasC2S /\ hasS2C THEN 1 ELSE 0)

C9_Step ==
    proxy_events' # proxy_events =>
        LET msg == proxy_events'[Len(proxy_events')]
        IN  /\ OneDirection(Contains(msg, "C->S: Received"),
                            Contains(msg, "S->C: Received"),
                            proxy_stats'.client_to_server
                                - proxy_stats.client_to_server,
                            proxy_stats'.server_to_client
                                - proxy_stats.server_to_client)
            /\ OneDirection(Contains(msg, "C->S: DROPPED"),
                            Contains(msg, "S->C: DROPPED"),
                            proxy_stats'.dropped_c2s - proxy_stats.dropped_c2s,
                            proxy_stats'.dropped_s2c - proxy_stats.dropped_s2c)
            /\ OneDirection(Contains(msg, "C->S: DELAYED"),
                            Contains(msg, "S->C: DELAYED"),
                            proxy_stats'.delayed_c2s - proxy_stats.delayed_c2s,
                            proxy_stats'.delayed_s2c - proxy_stats.delayed_s2c)

C9_DelayTimes ==
    proxy_pc # "idle" =>
        /\ Len(proxy_stats.delay_times_c2s) <= proxy_stats.delayed_c2s
        /\ Len(proxy_stats.delay_times_s2c) <= proxy_stats.delayed_s2c

\* C9: one event adds one to at most one counter of each pair, to the
\* client-to-server one when its message has both markers of the kind, and
\* what it adds to one kind does not depend on the markers of the other
\* kinds; a direction's delay-times list is never longer than its delayed
\* count.
C9_OneDirectionPerKind ==
    /\ [][C9_Step]_vars
    /\ []C9_DelayTimes

\* an event with both Received markers and a server-to-client drop counted
\* as one client-to-server packet and one server-to-client drop
C9_Witness ==
    /\ Len(proxy_events) = 1
    /\ Contains(proxy_events[1], "C->S: Received")
    /\ Contains(proxy_events[1], "S->C: Received")
    /\ proxy_stats.client_to_server = 1
    /\ proxy_stats.server_to_client = 0
    /\ proxy_stats.dropped_s2c = 1
    /\ proxy_stats.delayed_s2c = 1
    /\ proxy_stats.delay_times_s2c = << >>

(***************************************************************************)
(* print_bar_chart.  value / max_value and the product with width are      *)
(* IEEE 754 binary64 operations, int() truncates.  A positive double is    *)
(* [man, exp] with value man * 2^(exp - 52), where 2^52 <= man < 2^53; the *)
(* 53-bit significand man is kept in three limbs <<h, m, l>>,              *)
(* man = h * 2^36 + m * 2^18 + l, so that no intermediate result leaves    *)
(* the 32-bit integers of the model checker.                               *)
(***************************************************************************)
MaxCount == 50

BarChartWidth == 50

RECURSIVE Pow2(_)
Pow2(n) == IF n = 0 THEN 1 ELSE 2 * Pow2(n - 1)

Limb == Pow2(18)
TopLimb == Pow2(17)

\* the least s with num * 2^s >= den
RECURSIVE ShiftUp(_, _)
ShiftUp(num, den) == IF num >= den THEN 0 ELSE 1 + ShiftUp(2 * num, den)

\* the number of bits by which top exceeds the 17 bits of the top limb
RECURSIVE ExtraBits(_)
ExtraBits(top) == IF top < TopLimb THEN 0 ELSE 1 + ExtraBits(top \div 2)

\* round to nearest, ties to even: man is the exact significand cut to 53
\* bits, half tells how the cut-off part compares with half a unit in the
\* last place (-1 below, 0 equal, 1 above)
RoundNearestEven(man, exp, half) ==
    IF half = 1 \/ (half = 0 /\ man[3] % 2 = 1)
    THEN LET l == man[3] + 1
             m == man[2] + l \div Limb
             h == man[1] + m \div Limb
         IN  IF h = TopLimb
             THEN [man |-> <<TopLimb \div 2, 0, 0>>, exp |-> exp + 1]
             ELSE [man |-> <<h, m % Limb, l % Limb>>, exp |-> exp]
    ELSE [man |-> man, exp |-> exp]

\* num / den of two ints, 0 < num <= den < 2^13: the correctly rounded
\* quotient
FloatDivide(num, den) ==
    LET s == ShiftUp(num, den)
        a == num * Pow2(s) * Pow2(16)
        h == a \div den
        r1 == (a % den) * Limb
        m == r1 \div den
        r2 == (r1 % den) * Limb
        l == r2 \div den
        r3 == r2 % den
        half == IF 2 * r3 > den THEN 1 ELSE IF 2 * r3 = den THEN 0 ELSE -1
    IN  RoundNearestEven(<<h, m, l>>, -s, half)

\* x * float(c) for a double x and an int c, 0 < c < 2^13
FloatTimes(x, c) ==
    LET pl == x.man[3] * c
        pm == x.man[2] * c + pl \div Limb
        ph == x.man[1] * c + pm \div Limb
        e == ExtraBits(ph)
        cut == Pow2(e)
        low == Limb \div cut
        dropped == (pl % Limb) % cut
        l == (pl % Limb) \div cut + ((pm % Limb) % cut) * low
        m == (pm % Limb) \div cut + (ph % cut) * low
        h == ph \div cut
        half == IF dropped = 0 THEN -1
                ELSE IF 2 * dropped > cut THEN 1
                ELSE IF 2 * dropped = cut THEN 0 ELSE -1
    IN  RoundNearestEven(<<h, m, l>>, x.exp + e, half)

\* int(x) for a positive double x < 2^17
FloatToInt(x) ==
    IF x.exp < 0 THEN 0 ELSE x.man[1] \div Pow2(16 - x.exp)

\* round(value / max_value * width): nearest integer, ties to even
BarWidthRounded(v, m, width) ==
    IF m = 0 THEN 0
    ELSE LET q == (v * width) \div m
             r == (v * width) % m
         IN  IF 2 * r > m \/ (2 * r = m /\ q % 2 = 1) THEN q + 1 ELSE q

\* bar_width of print_bar_chart(label, value, max_value, width)
BarWidth(v, m, width) ==
    IF m = 0 THEN 0
    ELSE IF v = 0 THEN 0
    ELSE FloatToInt(FloatTimes(FloatDivide(v, m), width))

BarInit ==
    /\ bar_pc = "call"
    /\ max_value \in 0..MaxCount
    /\ value \in 0..max_value
    /\ bar_width = 0
    /\ divided = FALSE

print_bar_chart ==
    /\ bar_pc = "call"
    /\ bar_width' = BarWidth(value, max_value, BarChartWidth)
    /\ divided' = (max_value # 0)
    /\ bar_pc' = "done"
    /\ UNCHANGED <<value, max_value>>
    /\ UNCHANGED notBar

BarNext ==
    \/ print_bar_chart

BarStart == BarInit /\ MainIdle /\ ParseIdle /\ ClientIdle /\ ProxyIdle /\ ReportIdle

SpecBar == BarStart /\ [][BarNext]_vars

\* C3 as stated: the bar is round(value / max_value * width) glyphs long
\* when max_value > 0, and empty with no division when max_value = 0.
C3_BarIsRounded ==
    bar_pc = "done" =>
        /\ max_value > 0 =>
              bar_width = BarWidthRounded(value, max_value, BarChartWidth)
        /\ max_value = 0 => (bar_width = 0 /\ ~ divided)

\* C3 amended: the bar is the product cut to an integer, not rounded:
\* floor(value * width / max_value) glyphs, or one glyph fewer where that
\* quotient is a whole number and the double product falls just under it;
\* empty with no division when max_value = 0.
C3_BarIsTruncated ==
    bar_pc = "done" =>
        /\ max_value > 0 =>
              LET q == (value * BarChartWidth) \div max_value
                  r == (value * BarChartWidth) % max_value
              IN  /\ divided
                  /\ bar_width \in {q, q - 1}
                  /\ bar_width = q - 1 => (r = 0 /\ q > 0)
        /\ max_value = 0 => (bar_width = 0 /\ ~ divided)

\* one of three: 16.67 is drawn as 16 glyphs, not 17
C3_Witness ==
    /\ bar_pc = "done"
    /\ value = 1
    /\ max_value = 3
    /\ bar_width = 16

(***************************************************************************)
(* analyze_server_log                                                      *)
(***************************************************************************)
ServerStatsInit ==
    [total_received |-> 0, total_acks_sent |-> 0, unique_sequences |-> {}]

\* the body of "for event in events" of analyze_server_log
ServerStep(stats, msg) ==
    LET s1 == IF Contains(msg, "RECV:") /\ Contains(msg, "payload=")
              THEN [stats EXCEPT !.total_received = @ + 1,
                                 !.unique_sequences =
                                     @ \cup SearchNumber(msg, "seq=")]
              ELSE stats
    IN  IF Contains(msg, "ACK_SEND:")
        THEN [s1 EXCEPT !.total_acks_sent = @ + 1] ELSE s1

\* analyze_server_log(events)
RECURSIVE analyze_server_log(_)
analyze_server_log(evs) ==
    IF evs = << >> THEN ServerStatsInit
    ELSE ServerStep(analyze_server_log(SubSeq(evs, 1, Len(evs) - 1)),
                    evs[Len(evs)])

(***************************************************************************)
(* analyze_test_set after its banner: the statistics blocks.  Of what it   *)
(* prints the model keeps the derived metrics, and of what it computes the *)
(* denominators of its divisions.                                          *)
(***************************************************************************)
MaxReportEvents == 2

ReportClientMessages ==
    { <<Word("SEND:"), Number("seq=", 1)>>,
      <<Word("ACK_RECV:"), Number("seq=", 1)>>,
      <<Word("TIMEOUT:"), Number("attempt=", 1)>> }

ReportServerMessages ==
    { <<Word("RECV:"), Number("seq=", 1), Word("payload=")>>,
      <<Word("ACK_SEND:"), Number("seq=", 1)>> }

ReportProxyMessages ==
    { <<Word("C->S: Received")>>,
      <<Word("S->C: Received")>>,
      <<Word("C->S: DELAYED"), Number("ms", 30)>>,
      <<Word("S->C: DELAYED"), Number("ms", 50)>> }

\* the lists of at most MaxReportEvents events with messages from S
EventLists(S) == UNION {[1..n -> S] : n \in 0..MaxReportEvents}

SetMax(S) == CHOOSE x \in S : \A y \in S : y <= x

\* the divisions of print_bar_chart(label, value, max_value)
BarDivisions(max_v) == IF max_v = 0 THEN {} ELSE {max_v}

\* the CLIENT STATISTICS block
ClientBlock(client_events_) ==
    IF client_events_ = << >> THEN [labels |-> {}, divisors |-> {}]
    ELSE LET stats == analyze_client_log(client_events_)
             n == Cardinality(stats.sequences)
             rate == IF n > 0
                     THEN [labels |-> {"success_rate"}, divisors |-> {n}]
                     ELSE [labels |-> {}, divisors |-> {}]
             retrans == stats.retransmissions
             max_attempts == SetMax({retrans[a] : a \in DOMAIN retrans})
         IN  [labels |-> rate.labels,
              divisors |-> rate.divisors \cup
                  (IF DOMAIN retrans # {} THEN BarDivisions(max_attempts)
                   ELSE {})]

\* one direction of the PROXY STATISTICS block
ProxyDirection(passed, delay_times, drop_label, delay_label) ==
    [labels |-> (IF passed > 0 THEN {drop_label} ELSE {}) \cup
                (IF delay_times # << >> THEN {delay_label} ELSE {}),
     divisors |-> (IF passed > 0 THEN {passed} ELSE {}) \cup
                  (IF delay_times # << >> THEN {Len(delay_times)} ELSE {})]

\* the PROXY STATISTICS block
ProxyBlock(proxy_events_) ==
    IF proxy_events_ = << >> THEN [labels |-> {}, divisors |-> {}]
    ELSE LET stats == analyze_proxy_log(proxy_events_)
             c2s == ProxyDirection(stats.client_to_server,
                                   stats.delay_times_c2s,
                                   "drop_rate_c2s", "delay_avg_c2s")
             s2c == ProxyDirection(stats.server_to_client,
                                   stats.delay_times_s2c,
                                   "drop_rate_s2c", "delay_avg_s2c")
         IN  [labels |-> c2s.labels \cup s2c.labels,
              divisors |-> c2s.divisors \cup s2c.divisors]

\* the summary with the guard on messages_sent left out
SummaryBlockUnguarded(client_events_, server_events_) ==
    IF client_events_ # << >> /\ server_events_ # << >>
    THEN [labels |-> {"delivery_rate"},
          divisors |-> {Cardinality(analyze_client_log(client_events_).sequences)}]
    ELSE [labels |-> {}, divisors |-> {}]

\* the summary
SummaryBlock(client_events_, server_events_) ==
    IF client_events_ # << >> /\ server_events_ # << >>
    THEN LET messages_sent ==
                 Cardinality(analyze_client_log(client_events_).sequences)
         IN  IF messages_sent > 0
             THEN [labels |-> {"delivery_rate"}, divisors |-> {messages_sent}]
             ELSE [labels |-> {}, divisors |-> {}]
    ELSE [labels |-> {}, divisors |-> {}]

ReportInit ==
    /\ report_pc = "client"
    /\ report_events \in [client : EventLists(ReportClientMessages),
                          server : EventLists(ReportServerMessages),
                          proxy : EventLists(ReportProxyMessages)]
    /\ printed = {}
    /\ denominators = {}

ReportClient ==
    /\ report_pc = "client"
    /\ LET b == ClientBlock(report_events.client)
       IN  /\ printed' = printed \cup b.labels
           /\ denominators' = denominators \cup b.divisors
    /\ report_pc' = "server"
    /\ UNCHANGED report_events
    /\ UNCHANGED notReport

\* the SERVER STATISTICS block prints counts only
ReportServer ==
    /\ report_pc = "server"
    /\ report_pc' = "proxy"
    /\ UNCHANGED <<report_events, printed, denominators>>
    /\ UNCHANGED notReport

ReportProxy ==
    /\ report_pc = "proxy"
    /\ LET b == ProxyBlock(report_events.proxy)
       IN  /\ printed' = printed \cup b.labels
           /\ denominators' = denominators \cup b.divisors
    /\ report_pc' = "summary"
    /\ UNCHANGED report_events
    /\ UNCHANGED notReport

ReportSummary ==
    /\ report_pc = "summary"
    /\ LET b == SummaryBlock(report_events.client, report_events.server)
       IN  /\ printed' = printed \cup b.labels
           /\ denominators' = denominators \cup b.divisors
    /\ report_pc' = "done"
    /\ UNCHANGED report_events
    /\ UNCHANGED notReport

ReportNext ==
    \/ ReportClient
    \/ ReportServer
    \/ ReportProxy
    \/ ReportSummary

ReportStart == ReportInit /\ MainIdle /\ ParseIdle /\ ClientIdle /\ ProxyIdle /\ BarIdle

SpecReport == ReportStart /\ [][ReportNext]_vars

\* some message of evs has the marker
SomeWith(evs, marker) == \E i \in DOMAIN evs : Contains(evs[i], marker)

\* some message of evs has the marker and the numbered field
SomeWithNumber(evs, marker, field) ==
    \E i \in DOMAIN evs :
        Contains(evs[i], marker) /\ SearchNumber(evs[i], field) # {}

\* what C6 says of every metric but the delivery rate
C6_GuardedRates ==
    /\ 0 \notin denominators
    /\ report_pc = "done" =>
        /\ "success_rate" \in printed
              <=> SomeWithNumber(report_events.client, "SEND:", "seq=")
        /\ "drop_rate_c2s" \in printed
              <=> SomeWith(report_events.proxy, "C->S: Received")
        /\ "drop_rate_s2c" \in printed
              <=> \E i \in DOMAIN report_events.proxy :
                      /\ Contains(report_events.proxy[i], "S->C: Received")
                      /\ ~ Contains(report_events.proxy[i], "C->S: Received")
        /\ "delay_avg_c2s" \in printed
              <=> SomeWithNumber(report_events.proxy, "C->S: DELAYED", "ms")
        /\ "delay_avg_s2c" \in printed
              <=> \E i \in DOMAIN report_events.proxy :
                      /\ Contains(report_events.proxy[i], "S->C: DELAYED")
                      /\ ~ Contains(report_events.proxy[i], "C->S: DELAYED")
                      /\ SearchNumber(report_events.proxy[i], "ms") # {}

\* C6 as stated: every derived rate is printed exactly when its denominator
\* is not zero, the delivery rate exactly when the client's unique-sequence
\* count is, and no division by zero is evaluated.
C6_RatesIffDenominator ==
    /\ C6_GuardedRates
    /\ report_pc = "done" =>
          ("delivery_rate" \in printed
              <=> SomeWithNumber(report_events.client, "SEND:", "seq="))

\* C6 amended: the delivery rate is printed exactly when the client's
\* unique-sequence count is not zero and the server log gave events too.
C6_RatesIffDenominatorAndSummary ==
    /\ C6_GuardedRates
    /\ report_pc = "done" =>
          ("delivery_rate" \in printed
              <=> /\ SomeWithNumber(report_events.client, "SEND:", "seq=")
                  /\ report_events.server # << >>)

\* a client that sent, no server events: success rate without delivery rate
C6_Witness ==
    /\ report_pc = "done"
    /\ report_events.server = << >>
    /\ "success_rate" \in printed
    /\ "delivery_rate" \notin printed
    /\ "drop_rate_s2c" \in printed
    /\ "drop_rate_c2s" \notin printed

====
